---- MODULE Spec2Model ----
(***************************************************************************)
(* Bayesian networks (src/src/BN.py, src/src/dsep.py, src/src/iequiv.py):  *)
(* the graph store built by add_edge, the d-separation traversal is_dsep   *)
(* with find_obs_anc, the skeleton / immorality extraction and the         *)
(* I-equivalence comparison check_iequv.                                   *)
(*                                                                         *)
(* A Python dict is a function from its keys; a reference to a Node object *)
(* is the name under which BN.nodes holds that object (an object is made   *)
(* once per name and never replaced).  The iteration order of a dict is a  *)
(* property of the interpreter: it is the input korder, a sequence of all  *)
(* names, fixed for a run.                                                 *)
(***************************************************************************)
EXTENDS FiniteSets, Integers, Sequences, TLC

VARIABLES
    myBN,       \* dsep.py main: myBN.nodes, the name -> Node dict
    edges,      \* the edges handed to myBN.add_edge so far, in call order
    korder,     \* the interpreter's dict iteration order
    pc,         \* position of the main program
    start,      \* is_dsep argument
    end,        \* is_dsep argument
    observed,   \* is_dsep argument
    obs_anc,    \* is_dsep local: result of find_obs_anc
    via_nodes,  \* is_dsep local: the work stack of (name, direction)
    visited,    \* is_dsep local: the set of visited (name, direction)
    result,     \* what the call returned (None before it returns)
    expanded,   \* history: the (name, direction) pairs that passed the visited test, in order
    npops,      \* history: number of pops of via_nodes
    firstBN,    \* iequiv.py main: firstBN.nodes
    secondBN,   \* iequiv.py main: secondBN.nodes
    edges2      \* the edges handed to secondBN.add_edge so far

vars == <<myBN, edges, korder, pc, start, end, observed, obs_anc, via_nodes,
          visited, result, expanded, npops, firstBN, secondBN, edges2>>

dsepVars == <<start, end, observed, obs_anc, via_nodes, visited, expanded, npops>>

(***************************************************************************)
(* Bounds and universes.                                                   *)
(***************************************************************************)
\* Most add_edge calls of a run of the graph store (duplicates included).
MaxCalls == 4
\* Most distinct edges of a graph that is then queried or compared.
MaxEdges == 4
\* Most distinct edges of each of the two graphs check_iequv compares.
MaxEdgesIeq == 3
\* Most observed nodes of a query on the five-name DAGs.
MaxObs == 1

NameSeq == <<"A", "B", "C", "D", "E">>
Names3 == {"A", "B", "C"}
Names4 == {"A", "B", "C", "D"}
Names5 == {"A", "B", "C", "D", "E"}

Idx(n) == CHOOSE i \in 1..Len(NameSeq) : NameSeq[i] = n

\* Every directed edge over three names: self-loops, anti-parallel pairs and cycles.
Edges3 == Names3 \X Names3
\* Every directed edge over four names: two parents can share two children.
Edges4 == Names4 \X Names4
\* The edges over five names that point forward in the alphabet: every graph is a DAG.
FwdEdges5 == {e \in Names5 \X Names5 : Idx(e[1]) < Idx(e[2])}

Reverse(s) == [i \in 1..Len(s) |-> s[Len(s) + 1 - i]]
KeyOrders == {NameSeq, Reverse(NameSeq)}

None == "None"
KeyError == "KeyError"

(***************************************************************************)
(* Node and BN.add_edge.                                                   *)
(***************************************************************************)
EmptyDict == [k \in {} |-> k]

\* d[k] = v
DictSet(d, k, v) == [x \in DOMAIN d \cup {k} |-> IF x = k THEN v ELSE d[x]]

\* The keys of dict d in iteration order.
Keys(d, ord) == SelectSeq(ord, LAMBDA k : k \in DOMAIN d)

Node(name) == [name |-> name, parents |-> EmptyDict, children |-> EmptyDict]

\* node.add_parent(parent), as the new value of node
add_parent(node, parent) == [node EXCEPT !.parents = DictSet(@, parent.name, parent.name)]

\* node.add_child(child), as the new value of node
add_child(node, child) == [node EXCEPT !.children = DictSet(@, child.name, child.name)]

\* An add_edge that links parent -> child and leaves out child.add_parent(parent).
add_edge_child_only(nodes, pname, cname) ==
    LET n1 == IF pname \notin DOMAIN nodes THEN DictSet(nodes, pname, Node(pname)) ELSE nodes
        n2 == IF cname \notin DOMAIN n1 THEN DictSet(n1, cname, Node(cname)) ELSE n1
    IN  [n2 EXCEPT ![pname] = add_child(n2[pname], n2[cname])]

\* An add_edge that constructs its two nodes anew on every call.
add_edge_fresh_nodes(nodes, pname, cname) ==
    LET n1 == DictSet(nodes, pname, Node(pname))
        n2 == DictSet(n1, cname, Node(cname))
        n3 == [n2 EXCEPT ![pname] = add_child(n2[pname], n2[cname])]
    IN  [n3 EXCEPT ![cname] = add_parent(n3[cname], n3[pname])]

\* self.nodes after self.add_edge((pname, cname))
add_edge(nodes, pname, cname) ==
    LET n1 == IF pname \notin DOMAIN nodes THEN DictSet(nodes, pname, Node(pname)) ELSE nodes
        n2 == IF cname \notin DOMAIN n1 THEN DictSet(n1, cname, Node(cname)) ELSE n1
        n3 == [n2 EXCEPT ![pname] = add_child(n2[pname], n2[cname])]
    IN  [n3 EXCEPT ![cname] = add_parent(n3[cname], n3[pname])]

BN == EmptyDict

(***************************************************************************)
(* BN.get_skeleton.                                                        *)
(***************************************************************************)
RECURSIVE AddPairs(_, _, _)
\* for k in keys: if (nname, k) not in skeleton and (k, nname) not in skeleton: add (nname, k)
AddPairs(skeleton, nname, keys) ==
    IF keys = <<>> THEN skeleton
    ELSE LET k == Head(keys)
             s == IF <<nname, k>> \notin skeleton /\ <<k, nname>> \notin skeleton
                  THEN skeleton \cup {<<nname, k>>}
                  ELSE skeleton
         IN  AddPairs(s, nname, Tail(keys))

RECURSIVE SkeletonLoop(_, _, _, _)
\* The loop over self.nodes.iteritems(): both inner loops run over node.parents.
SkeletonLoop(nodes, ord, names, skeleton) ==
    IF names = <<>> THEN skeleton
    ELSE LET nname == Head(names)
             s1 == AddPairs(skeleton, nname, Keys(nodes[nname].parents, ord))
             s2 == AddPairs(s1, nname, Keys(nodes[nname].parents, ord))
         IN  SkeletonLoop(nodes, ord, Tail(names), s2)

RECURSIVE AddPairsOneWay(_, _, _)
AddPairsOneWay(skeleton, nname, keys) ==
    IF keys = <<>> THEN skeleton
    ELSE AddPairsOneWay(skeleton \cup {<<nname, Head(keys)>>}, nname, Tail(keys))

RECURSIVE SkeletonLoopBothMaps(_, _, _, _)
SkeletonLoopBothMaps(nodes, ord, names, skeleton) ==
    IF names = <<>> THEN skeleton
    ELSE LET nname == Head(names)
             s1 == AddPairsOneWay(skeleton, nname, Keys(nodes[nname].parents, ord))
             s2 == AddPairsOneWay(s1, nname, Keys(nodes[nname].children, ord))
         IN  SkeletonLoopBothMaps(nodes, ord, Tail(names), s2)

\* A get_skeleton that walks parents and children and adds every pair it meets.
get_skeleton_both_maps(nodes, ord) == SkeletonLoopBothMaps(nodes, ord, Keys(nodes, ord), {})

get_skeleton(nodes, ord) == SkeletonLoop(nodes, ord, Keys(nodes, ord), {})

(***************************************************************************)
(* BN.get_skeleton_immor and check_iequv.                                  *)
(***************************************************************************)
\* The (p1, p2) the two nested xrange loops meet, in order.
ParentPairs(parents) ==
    LET n == Len(parents)
        \* the i2 that follow i1: i1 + 1 .. n
        Row(i1) == [k \in 1..(n - i1) |-> <<parents[i1], parents[i1 + k]>>]
        RECURSIVE Rows(_)
        Rows(i1) == IF i1 >= n THEN <<>> ELSE Row(i1) \o Rows(i1 + 1)
    IN  Rows(1)

RECURSIVE AddImmoral_no_skeleton_test(_, _, _)
\* An AddImmoral that leaves out the test against the skeleton.
AddImmoral_no_skeleton_test(immoral, skeleton, pairs) ==
    IF pairs = <<>> THEN immoral
    ELSE LET p1 == Head(pairs)[1]
             p2 == Head(pairs)[2]
             im == IF <<p1, p2>> \notin immoral /\ <<p2, p1>> \notin immoral
                   THEN immoral \cup {<<p1, p2>>}
                   ELSE immoral
         IN  AddImmoral_no_skeleton_test(im, skeleton, Tail(pairs))

RECURSIVE AddImmoral(_, _, _)
\* A pair is added when neither orientation is in the skeleton or in immoral.
AddImmoral(immoral, skeleton, pairs) ==
    IF pairs = <<>> THEN immoral
    ELSE LET p1 == Head(pairs)[1]
             p2 == Head(pairs)[2]
             im == IF /\ <<p1, p2>> \notin skeleton /\ <<p2, p1>> \notin skeleton
                      /\ <<p1, p2>> \notin immoral /\ <<p2, p1>> \notin immoral
                   THEN immoral \cup {<<p1, p2>>}
                   ELSE immoral
         IN  AddImmoral(im, skeleton, Tail(pairs))

RECURSIVE ImmoralLoop(_, _, _, _, _)
ImmoralLoop(nodes, ord, names, skeleton, immoral) ==
    IF names = <<>> THEN immoral
    ELSE LET parents == Keys(nodes[Head(names)].parents, ord)
             im == IF Len(parents) > 1
                   THEN AddImmoral(immoral, skeleton, ParentPairs(parents))
                   ELSE immoral
         IN  ImmoralLoop(nodes, ord, Tail(names), skeleton, im)

\* The tuple (skeleton, immoral)
get_skeleton_immor(nodes, ord) ==
    LET skeleton == get_skeleton(nodes, ord)
    IN  <<skeleton, ImmoralLoop(nodes, ord, Keys(nodes, ord), skeleton, {})>>

\* A check_iequv without the comparison of the sizes.
check_iequv_no_sizes(bn1, bn2, ord) ==
    LET r1 == get_skeleton_immor(bn1, ord)
        r2 == get_skeleton_immor(bn2, ord)
    IN  IF \E t \in r1[2] : t \notin r2[2] /\ <<t[2], t[1]>> \notin r2[2] THEN FALSE
        ELSE IF \E t \in r1[1] : t \notin r2[1] /\ <<t[2], t[1]>> \notin r2[1] THEN FALSE
        ELSE TRUE

check_iequv(bn1, bn2, ord) ==
    LET r1 == get_skeleton_immor(bn1, ord)
        r2 == get_skeleton_immor(bn2, ord)
        ske1 == r1[1]
        immor1 == r1[2]
        ske2 == r2[1]
        immor2 == r2[2]
    IN  IF Cardinality(ske1) # Cardinality(ske2) \/ Cardinality(immor1) # Cardinality(immor2)
        THEN FALSE
        ELSE IF \E t \in immor1 : t \notin immor2 /\ <<t[2], t[1]>> \notin immor2 THEN FALSE
        ELSE IF \E t \in ske1 : t \notin ske2 /\ <<t[2], t[1]>> \notin ske2 THEN FALSE
        ELSE TRUE

(***************************************************************************)
(* BN.find_obs_anc and BN.is_dsep.                                         *)
(***************************************************************************)
RECURSIVE ObsAncLoop(_, _, _)
\* while len(visit_nodes) > 0: the popped name is looked up in self.nodes (a
\* KeyError when it is no key) and the keys of its parents map are added.
\* visit_nodes is only ever popped: no parent is pushed back onto it.
ObsAncLoop(nodes, visit_nodes, anc) ==
    IF visit_nodes = {} THEN [raised |-> FALSE, value |-> anc]
    ELSE LET next == CHOOSE n \in visit_nodes : TRUE
         IN  IF next \notin DOMAIN nodes
             THEN [raised |-> TRUE, value |-> {}]
             ELSE ObsAncLoop(nodes, visit_nodes \ {next},
                             anc \cup DOMAIN nodes[next].parents)

\* A find_obs_anc that looks names up with self.nodes.get and passes over a miss.
find_obs_anc_skip_unknown(nodes, obs) == ObsAncLoop(nodes, obs \cap DOMAIN nodes, {})

find_obs_anc(nodes, obs) == ObsAncLoop(nodes, obs, {})

Tag(keys, direction) == [i \in 1..Len(keys) |-> <<keys[i], direction>>]

\* Pushes that, going up through an unobserved node, follow the parents only.
Pushes_up_parents_only(nodes, obs, anc, ord, nname, direction) ==
    LET parents == Keys(nodes[nname].parents, ord)
        children == Keys(nodes[nname].children, ord)
    IN  IF direction = "up" /\ nname \notin obs
        THEN Tag(parents, "up")
        ELSE IF direction = "down"
        THEN (IF nname \notin obs THEN Tag(children, "down") ELSE <<>>)
             \o (IF nname \in obs \/ nname \in anc THEN Tag(parents, "up") ELSE <<>>)
        ELSE <<>>

\* Pushes that go on down to the children of an observed node.
Pushes_through_observed(nodes, obs, anc, ord, nname, direction) ==
    LET parents == Keys(nodes[nname].parents, ord)
        children == Keys(nodes[nname].children, ord)
    IN  IF direction = "up" /\ nname \notin obs
        THEN Tag(parents, "up") \o Tag(children, "down")
        ELSE IF direction = "down"
        THEN Tag(children, "down")
             \o (IF nname \in obs \/ nname \in anc THEN Tag(parents, "up") ELSE <<>>)
        ELSE <<>>

\* Pushes that turn up to the parents at a node of obs_anc only, observed or not.
Pushes_anc_collider_only(nodes, obs, anc, ord, nname, direction) ==
    LET parents == Keys(nodes[nname].parents, ord)
        children == Keys(nodes[nname].children, ord)
    IN  IF direction = "up" /\ nname \notin obs
        THEN Tag(parents, "up") \o Tag(children, "down")
        ELSE IF direction = "down"
        THEN (IF nname \notin obs THEN Tag(children, "down") ELSE <<>>)
             \o (IF nname \in anc THEN Tag(parents, "up") ELSE <<>>)
        ELSE <<>>

\* Pushes that turn up to the parents at every node reached going down.
Pushes_collider_always(nodes, obs, anc, ord, nname, direction) ==
    LET parents == Keys(nodes[nname].parents, ord)
        children == Keys(nodes[nname].children, ord)
    IN  IF direction = "up" /\ nname \notin obs
        THEN Tag(parents, "up") \o Tag(children, "down")
        ELSE IF direction = "down"
        THEN (IF nname \notin obs THEN Tag(children, "down") ELSE <<>>)
             \o Tag(parents, "up")
        ELSE <<>>

\* What one unvisited (nname, direction) appends to via_nodes, in order.
Pushes(nodes, obs, anc, ord, nname, direction) ==
    LET parents == Keys(nodes[nname].parents, ord)
        children == Keys(nodes[nname].children, ord)
    IN  IF direction = "up" /\ nname \notin obs
        THEN Tag(parents, "up") \o Tag(children, "down")
        ELSE IF direction = "down"
        THEN (IF nname \notin obs THEN Tag(children, "down") ELSE <<>>)
             \o (IF nname \in obs \/ nname \in anc THEN Tag(parents, "up") ELSE <<>>)
        ELSE <<>>

\* An Iteration that leaves out visited.add((nname, direction)).
Iteration_no_visited_add(nodes, e, obs, anc, ord, t) ==
    IF t.via_nodes = <<>>
    THEN [t EXCEPT !.pc = "done", !.result = TRUE, !.pushed = FALSE]
    ELSE LET top == t.via_nodes[Len(t.via_nodes)]
             rest == SubSeq(t.via_nodes, 1, Len(t.via_nodes) - 1)
             nname == top[1]
             direction == top[2]
         IN  IF nname \notin DOMAIN nodes
             THEN [t EXCEPT !.via_nodes = rest, !.pc = "error", !.pushed = FALSE]
             ELSE IF top \in t.visited
             THEN [t EXCEPT !.via_nodes = rest, !.pushed = FALSE]
             ELSE IF nname \notin obs /\ nname = e
             THEN [t EXCEPT !.via_nodes = rest, !.pc = "done", !.result = FALSE,
                            !.pushed = TRUE]
             ELSE [t EXCEPT !.via_nodes = rest \o Pushes(nodes, obs, anc, ord, nname, direction),
                            !.pushed = TRUE]

\* One test of the while condition of is_dsep and, when it holds, one run of the
\* loop body.  t holds the locals and where the call stands: pc is "loop" while
\* the loop runs, "done" once the call returned t.result, "error" once it raised
\* KeyError; t.pushed says whether the body got past the visited test.
Iteration(nodes, e, obs, anc, ord, t) ==
    IF t.via_nodes = <<>>
    THEN [t EXCEPT !.pc = "done", !.result = TRUE, !.pushed = FALSE]
    ELSE LET top == t.via_nodes[Len(t.via_nodes)]
             rest == SubSeq(t.via_nodes, 1, Len(t.via_nodes) - 1)
             nname == top[1]
             direction == top[2]
         IN  IF nname \notin DOMAIN nodes
             THEN [t EXCEPT !.via_nodes = rest, !.pc = "error", !.pushed = FALSE]
             ELSE IF top \in t.visited
             THEN [t EXCEPT !.via_nodes = rest, !.pushed = FALSE]
             ELSE IF nname \notin obs /\ nname = e
             THEN [t EXCEPT !.via_nodes = rest, !.visited = @ \cup {top},
                            !.pc = "done", !.result = FALSE, !.pushed = TRUE]
             ELSE [t EXCEPT !.via_nodes = rest \o Pushes(nodes, obs, anc, ord, nname, direction),
                            !.visited = @ \cup {top}, !.pushed = TRUE]

RECURSIVE RunLoop(_, _, _, _, _, _)
RunLoop(nodes, e, obs, anc, ord, t) ==
    IF t.pc = "loop" THEN RunLoop(nodes, e, obs, anc, ord, Iteration(nodes, e, obs, anc, ord, t))
    ELSE IF t.pc = "error" THEN KeyError
    ELSE IF t.result THEN "True" ELSE "False"

\* The locals of is_dsep as the loop is entered.
Entry(s) == [via_nodes |-> <<<<s, "up">>>>, visited |-> {}, pc |-> "loop",
             result |-> None, pushed |-> FALSE]

\* What print myBN.is_dsep(s, e, obs) writes, or KeyError when the call raises.
is_dsep(nodes, s, e, obs, ord) ==
    LET anc == find_obs_anc(nodes, obs)
    IN  IF anc.raised THEN KeyError
        ELSE RunLoop(nodes, e, obs, anc.value, ord, Entry(s))

(***************************************************************************)
(* The graph store on its own: any sequence of add_edge calls, then        *)
(* get_skeleton.                                                           *)
(***************************************************************************)
InitCommon ==
    /\ myBN = BN
    /\ edges = <<>>
    /\ korder \in KeyOrders
    /\ start = None
    /\ end = None
    /\ observed = {}
    /\ obs_anc = {}
    /\ via_nodes = <<>>
    /\ visited = {}
    /\ result = None
    /\ expanded = <<>>
    /\ npops = 0
    /\ firstBN = BN
    /\ secondBN = BN
    /\ edges2 = <<>>

Init ==
    /\ InitCommon
    /\ pc = "build"

\* myBN.add_edge(edge)
AddEdge(edge) ==
    /\ pc = "build"
    /\ myBN' = add_edge(myBN, edge[1], edge[2])
    /\ edges' = Append(edges, edge)
    /\ UNCHANGED <<korder, pc, result, firstBN, secondBN, edges2>>
    /\ UNCHANGED dsepVars

Build ==
    \E edge \in Edges3 :
        /\ Len(edges) < MaxCalls
        /\ AddEdge(edge)

\* myBN.get_skeleton()
GetSkeleton ==
    /\ pc = "build"
    /\ result' = get_skeleton(myBN, korder)
    /\ pc' = "skeleton"
    /\ UNCHANGED <<myBN, edges, korder, firstBN, secondBN, edges2>>
    /\ UNCHANGED dsepVars

Next == Build \/ GetSkeleton

Spec == Init /\ [][Next]_vars

(***************************************************************************)
(* dsep.py: build the graph, then answer a query with is_dsep, one loop    *)
(* iteration per step.  The edge list is duplicate-free and sorted; the    *)
(* graph store run above covers every other list.                          *)
(***************************************************************************)
EdgeIdx(e) == Idx(e[1]) * Len(NameSeq) + Idx(e[2])

Sorted(es, e) == IF es = <<>> THEN TRUE ELSE EdgeIdx(es[Len(es)]) < EdgeIdx(e)

\* The first lines of is_dsep: find_obs_anc, then the initial stack and visited set.
Query(s, e, obs) ==
    /\ pc = "build"
    /\ start' = s
    /\ end' = e
    /\ observed' = obs
    /\ LET anc == find_obs_anc(myBN, obs)
       IN  IF anc.raised
           THEN /\ pc' = "error"
                /\ UNCHANGED <<obs_anc, via_nodes, visited>>
           ELSE /\ pc' = "loop"
                /\ obs_anc' = anc.value
                /\ via_nodes' = Entry(s).via_nodes
                /\ visited' = Entry(s).visited
    /\ UNCHANGED <<myBN, edges, korder, result, expanded, npops, firstBN, secondBN, edges2>>

\* One iteration of the while loop of is_dsep.
Iterate ==
    /\ pc = "loop"
    /\ LET t == Iteration(myBN, end, observed, obs_anc, korder,
                          [via_nodes |-> via_nodes, visited |-> visited, pc |-> pc,
                           result |-> result, pushed |-> FALSE])
       IN  /\ via_nodes' = t.via_nodes
           /\ visited' = t.visited
           /\ pc' = t.pc
           /\ result' = t.result
           /\ expanded' = IF t.pushed THEN Append(expanded, via_nodes[Len(via_nodes)])
                          ELSE expanded
           /\ npops' = IF via_nodes = <<>> THEN npops ELSE npops + 1
    /\ UNCHANGED <<myBN, edges, korder, start, end, observed, obs_anc, firstBN, secondBN, edges2>>

BuildSorted3 ==
    \E edge \in Edges3 :
        /\ Len(edges) < MaxEdges
        /\ Sorted(edges, edge)
        /\ AddEdge(edge)

QueryAny3 == \E s \in Names3, e \in Names3, obs \in SUBSET Names3 : Query(s, e, obs)

NextDsep == BuildSorted3 \/ QueryAny3 \/ Iterate

SpecDsep == Init /\ [][NextDsep]_vars

\* The loop of is_dsep runs on once entered: nothing else competes for the step.
SpecDsepFair == SpecDsep /\ WF_vars(Iterate)

BuildSortedDag ==
    \E edge \in FwdEdges5 :
        /\ Len(edges) < MaxEdges
        /\ Sorted(edges, edge)
        /\ AddEdge(edge)

\* Queries about two distinct nodes, neither of them observed.
QueryDag ==
    \E s \in Names5 : \E e \in Names5 \ {s} :
        \E obs \in {o \in SUBSET (Names5 \ {s, e}) : Cardinality(o) <= MaxObs} :
            Query(s, e, obs)

NextDag == BuildSortedDag \/ QueryDag \/ Iterate

SpecDag == Init /\ [][NextDag]_vars

(***************************************************************************)
(* iequiv.py: build firstBN, then secondBN, then compare them.  Each edge  *)
(* list is duplicate-free and sorted.                                      *)
(***************************************************************************)
InitIequiv ==
    /\ InitCommon
    /\ pc = "first"

\* firstBN.add_edge(edge)
AddEdgeFirst(edge) ==
    /\ pc = "first"
    /\ Len(edges) < MaxEdgesIeq
    /\ Sorted(edges, edge)
    /\ firstBN' = add_edge(firstBN, edge[1], edge[2])
    /\ edges' = Append(edges, edge)
    /\ UNCHANGED <<myBN, korder, pc, result, secondBN, edges2>>
    /\ UNCHANGED dsepVars

\* secondBN.add_edge(edge): the first graph is complete
AddEdgeSecond(edge) ==
    /\ pc \in {"first", "second"}
    /\ Len(edges2) < MaxEdgesIeq
    /\ Sorted(edges2, edge)
    /\ secondBN' = add_edge(secondBN, edge[1], edge[2])
    /\ edges2' = Append(edges2, edge)
    /\ pc' = "second"
    /\ UNCHANGED <<myBN, edges, korder, result, firstBN>>
    /\ UNCHANGED dsepVars

\* print check_iequv(firstBN, secondBN)
CheckIequv ==
    /\ pc \in {"first", "second"}
    /\ result' = check_iequv(firstBN, secondBN, korder)
    /\ pc' = "compared"
    /\ UNCHANGED <<myBN, edges, korder, firstBN, secondBN, edges2>>
    /\ UNCHANGED dsepVars

NextIequiv ==
    \/ \E edge \in Edges3 : AddEdgeFirst(edge)
    \/ \E edge \in Edges3 : AddEdgeSecond(edge)
    \/ CheckIequv

SpecIequiv == InitIequiv /\ [][NextIequiv]_vars

(***************************************************************************)
(* The extractor on its own: build a graph over four names from a sorted,  *)
(* duplicate-free edge list, then call get_skeleton_immor.                 *)
(***************************************************************************)
BuildSorted4 ==
    \E edge \in Edges4 :
        /\ Len(edges) < MaxEdges
        /\ Sorted(edges, edge)
        /\ AddEdge(edge)

\* myBN.get_skeleton_immor()
GetSkeletonImmor ==
    /\ pc = "build"
    /\ result' = get_skeleton_immor(myBN, korder)
    /\ pc' = "immor"
    /\ UNCHANGED <<myBN, edges, korder, firstBN, secondBN, edges2>>
    /\ UNCHANGED dsepVars

NextImmor == BuildSorted4 \/ GetSkeletonImmor

SpecImmor == Init /\ [][NextImmor]_vars

(***************************************************************************)
(* Graph vocabulary for the properties.                                    *)
(***************************************************************************)
Range(s) == {s[i] : i \in 1..Len(s)}

RECURSIVE Closure(_)
\* Transitive closure of a set of pairs.
Closure(R) ==
    LET R2 == R \cup {<<z[1][1], z[2][2]>> : z \in {w \in R \X R : w[1][2] = w[2][1]}}
    IN  IF R2 = R THEN R ELSE Closure(R2)

IsDAG(E) == \A e \in Closure(E) : e[1] # e[2]

\* The graph with exactly the edges E, stated from E alone.
GraphOf(E) ==
    LET V == {e[1] : e \in E} \cup {e[2] : e \in E}
    IN  [n \in V |-> [name |-> n,
                      parents |-> [p \in {q \in V : <<q, n>> \in E} |-> p],
                      children |-> [c \in {q \in V : <<n, q>> \in E} |-> c]]]

\* The nodes with a descendant in Z, at any depth.
HasObservedDescendant(E, Z) == {e[1] : e \in {x \in Closure(E) : x[2] \in Z}}

\* Node m, entered from a and left towards b, lets the trail through under the
\* standard rule: a collider when observed or with an observed descendant, any
\* other node when unobserved.
NodeActive(E, Z, a, m, b) ==
    IF <<a, m>> \in E /\ <<b, m>> \in E
    THEN m \in Z \/ m \in HasObservedDescendant(E, Z)
    ELSE m \notin Z

Adjacent(E, a, b) == <<a, b>> \in E \/ <<b, a>> \in E

RECURSIVE TrailFrom(_, _, _, _, _, _)
\* Some trail prev - cur - ... - goal over fresh nodes has every inner node active.
TrailFrom(E, Z, prev, cur, goal, seen) ==
    \/ cur = goal
    \/ \E nxt \in ({e[1] : e \in E} \cup {e[2] : e \in E}) \ seen :
          /\ Adjacent(E, cur, nxt)
          /\ NodeActive(E, Z, prev, cur, nxt)
          /\ TrailFrom(E, Z, cur, nxt, goal, seen \cup {nxt})

\* An active trail joins s and g given Z, in the DAG with edges E.
ActiveTrail(E, Z, s, g) ==
    \E n \in ({e[1] : e \in E} \cup {e[2] : e \in E}) \ {s} :
        Adjacent(E, s, n) /\ TrailFrom(E, Z, s, n, g, {s, n})

Returned == pc = "done" /\ start # None

\* What the query printed, or KeyError when it raised.
Outcome == IF pc = "error" THEN KeyError ELSE IF result THEN "True" ELSE "False"

(***************************************************************************)
(* C1: for every DAG and every query with start # end and neither of them  *)
(* observed, is_dsep returns False exactly when an active trail joins      *)
(* start and end under the standard d-separation rule (a collider is       *)
(* active when observed or when it has an observed descendant at any       *)
(* depth), and True otherwise.                                             *)
(***************************************************************************)
C1_StandardDSeparation ==
    (/\ Returned
     /\ start # end
     /\ start \notin observed /\ end \notin observed
     /\ {start, end} \subseteq DOMAIN myBN)
        => (result = ~ActiveTrail(Range(edges), observed, start, end))

\* A collider whose only observed descendant is a grandchild: the trail through
\* it is active and the query answers False.
C1_Witness ==
    /\ Returned
    /\ edges = <<<<"A", "C">>, <<"B", "C">>, <<"C", "D">>, <<"D", "E">>>>
    /\ start = "A" /\ end = "B" /\ observed = {"E"}
    /\ obs_anc = {"D"}
    /\ result = FALSE

(***************************************************************************)
(* C2: for every graph, every pair of node names X, Y in the graph and     *)
(* every observed set Z of node names in the graph,                        *)
(* is_dsep(X, Y, Z) = is_dsep(Y, X, Z).                                    *)
(***************************************************************************)
C2_QueryOrderIrrelevant ==
    (/\ Returned
     /\ ({start, end} \cup observed) \subseteq DOMAIN myBN)
        => Outcome = is_dsep(myBN, end, start, observed, korder)

\* A query answered False on a graph with a directed cycle and an observed node.
C2_Witness ==
    /\ Returned
    /\ Range(edges) = {<<"A", "B">>, <<"B", "C">>, <<"C", "A">>, <<"C", "B">>}
    /\ start = "A" /\ end = "B" /\ observed = {"C"}
    /\ result = FALSE

(***************************************************************************)
(* C3: in a graph that is a single directed chain n1 -> ... -> nk, k >= 3, *)
(* for two distinct chain nodes queried in either order with neither       *)
(* observed, is_dsep is True if some node strictly between them on the     *)
(* chain is observed and False if none is; so on A -> B -> C,              *)
(* is_dsep(A, C, [B]) is True and is_dsep(C, A, []) is False.              *)
(***************************************************************************)
\* E is one directed chain over at least three nodes.
IsChain(E) ==
    LET V == {e[1] : e \in E} \cup {e[2] : e \in E}
    IN  /\ Cardinality(E) >= 2
        /\ Cardinality(V) = Cardinality(E) + 1
        /\ IsDAG(E)
        /\ \A n \in V : Cardinality({e \in E : e[1] = n}) <= 1
        /\ \A n \in V : Cardinality({e \in E : e[2] = n}) <= 1

\* The nodes strictly between x and y on the chain E.
Between(E, x, y) ==
    {n \in {e[1] : e \in E} :
        \/ <<x, n>> \in Closure(E) /\ <<n, y>> \in Closure(E)
        \/ <<y, n>> \in Closure(E) /\ <<n, x>> \in Closure(E)}

C3_ChainBlockedByObservedBetween ==
    (/\ Returned
     /\ IsChain(Range(edges))
     /\ start # end
     /\ {start, end} \subseteq DOMAIN myBN
     /\ start \notin observed /\ end \notin observed)
        => (result = (Between(Range(edges), start, end) \cap observed # {}))

\* A -> B -> C -> D asked from the far end with an inner node observed.
C3_Witness ==
    /\ Returned
    /\ edges = <<<<"A", "B">>, <<"B", "C">>, <<"C", "D">>>>
    /\ start = "D" /\ end = "A" /\ observed = {"C"}
    /\ result = TRUE

(***************************************************************************)
(* C4: in the collider graph A -> B <- C, is_dsep(A, C, []) is True and    *)
(* is_dsep(A, C, [B]) is False, and the same with A and C swapped.         *)
(***************************************************************************)
C4_ColliderBlocksUnlessObserved ==
    (/\ Returned
     /\ Range(edges) = {<<"A", "B">>, <<"C", "B">>}
     /\ {start, end} = {"A", "C"}
     /\ observed \in {{}, {"B"}})
        => (result = (observed = {}))

C4_Witness ==
    /\ Returned
    /\ Range(edges) = {<<"A", "B">>, <<"C", "B">>}
    /\ start = "C" /\ end = "A" /\ observed = {"B"}
    /\ result = FALSE

(***************************************************************************)
(* C7: a query that names a node never introduced by an edge, as start, as *)
(* end or as a member of observed, ends in KeyError and yields no boolean. *)
(***************************************************************************)
Ended == pc \in {"done", "error"} /\ start # None

C7_UnknownNameRaises ==
    (Ended /\ ~(({start, end} \cup observed) \subseteq DOMAIN myBN))
        => (pc = "error" /\ result = None)

(***************************************************************************)
(* C7 as amended: a query whose start or some member of observed was never *)
(* introduced by an edge ends in KeyError and yields no boolean; a query   *)
(* whose start and observed names are all in the graph and whose end is    *)
(* not raises nothing and returns True.                                    *)
(***************************************************************************)
C7_UnknownStartOrObservedRaises ==
    /\ (Ended /\ ~(({start} \cup observed) \subseteq DOMAIN myBN))
          => (pc = "error" /\ result = None)
    /\ (Ended /\ ({start} \cup observed) \subseteq DOMAIN myBN /\ end \notin DOMAIN myBN)
          => (pc = "done" /\ result = TRUE)

\* An unknown observed name raised although start and end are in the graph.
C7_Witness ==
    /\ pc = "error"
    /\ Range(edges) = {<<"A", "B">>}
    /\ start = "A" /\ end = "B" /\ observed = {"C"}

(***************************************************************************)
(* C10: the is_dsep traversal terminates on every finite graph, directed   *)
(* cycles, anti-parallel edges and self-loops included: each (name,        *)
(* direction) pair gets past the visited test at most once, so at most     *)
(* 2 * |nodes| expansions occur (and at most 1 + 4 * |edges| pops) before  *)
(* the stack empties or False is returned.                                 *)
(***************************************************************************)
NoRepeat(s) == \A i \in 1..Len(s), j \in 1..Len(s) : s[i] = s[j] => i = j

C10_TraversalTerminates ==
    /\ [](/\ NoRepeat(expanded)
          /\ Len(expanded) <= 2 * Cardinality(DOMAIN myBN)
          /\ npops <= 1 + 4 * Len(edges))
    /\ (pc = "loop") ~> (pc \in {"done", "error"})

\* Both directions of all three nodes were expanded, on a graph with a directed
\* cycle and an anti-parallel pair, before the stack emptied.
C10_Witness ==
    /\ Returned
    /\ Range(edges) = {<<"A", "C">>, <<"B", "A">>, <<"C", "A">>, <<"C", "B">>}
    /\ start = "A" /\ end = "B" /\ observed = {"B"}
    /\ Len(expanded) = 6
    /\ result = TRUE

(***************************************************************************)
(* C5: check_iequv(g1, g2) is True exactly when the skeleton of g1 equals  *)
(* the skeleton of g2 and the immorality set of g1 equals that of g2, both *)
(* compared as sets of unordered pairs (two-way equality); hence           *)
(* check_iequv(g, g) is True and check_iequv(g1, g2) = check_iequv(g2, g1).*)
(***************************************************************************)
\* A set of tuples as a set of unordered pairs.
Unordered(S) == {{t[1], t[2]} : t \in S}

C5_IequivIsSetEquality ==
    pc = "compared" =>
        LET r1 == get_skeleton_immor(firstBN, korder)
            r2 == get_skeleton_immor(secondBN, korder)
        IN  /\ result = (/\ Unordered(r1[1]) = Unordered(r2[1])
                         /\ Unordered(r1[2]) = Unordered(r2[2]))
            /\ result = check_iequv(secondBN, firstBN, korder)
            /\ Range(edges) = Range(edges2) => result = TRUE

\* Chain against collider: the same skeleton, and an immorality on one side only.
C5_Witness ==
    /\ pc = "compared"
    /\ edges = <<<<"A", "B">>, <<"B", "C">>>>
    /\ edges2 = <<<<"A", "B">>, <<"C", "B">>>>
    /\ result = FALSE

(***************************************************************************)
(* C11: the immorality set get_skeleton_immor() returns holds an unordered *)
(* pair {P1, P2}, P1 # P2, exactly when some node has both P1 and P2 as    *)
(* parents and no edge joins P1 and P2 in either direction; each such pair *)
(* appears once, in one orientation, even when several common children     *)
(* produce it.  So the chain A -> B -> C has no immorality, the graph      *)
(* C -> B, A -> B has the immorality {A, C}, and check_iequv of the two is *)
(* False.                                                                  *)
(***************************************************************************)
\* The graph iequiv.py builds from the edge lines C B, A B.
ColliderBN == add_edge(add_edge(BN, "C", "B"), "A", "B")

C11_ImmoralitiesAreUnshieldedParents ==
    pc = "immor" =>
        LET E == Range(edges)
            immoral == result[2]
        IN  /\ \A P1 \in Names4 : \A P2 \in Names4 \ {P1} :
                  ({P1, P2} \in Unordered(immoral))
                      <=> (/\ \E n \in Names4 : <<P1, n>> \in E /\ <<P2, n>> \in E
                           /\ ~Adjacent(E, P1, P2))
            /\ \A t \in immoral : t[1] # t[2] /\ <<t[2], t[1]>> \notin immoral
            /\ Cardinality(immoral) = Cardinality(Unordered(immoral))
            /\ E = {<<"A", "B">>, <<"B", "C">>} =>
                  /\ immoral = {}
                  /\ check_iequv(myBN, ColliderBN, korder) = FALSE
            /\ E = {<<"A", "B">>, <<"C", "B">>} => Unordered(immoral) = {{"A", "C"}}

\* Two unjoined parents with two common children: one pair in the result.
C11_Witness ==
    /\ pc = "immor"
    /\ Range(edges) = {<<"A", "C">>, <<"B", "C">>, <<"A", "D">>, <<"B", "D">>}
    /\ Cardinality(result[2]) = 1
    /\ Unordered(result[2]) = {{"A", "B"}}

(***************************************************************************)
(* C6: for a graph whose inserted edges form a DAG, in any insertion order *)
(* and with any edge inserted any number of times, get_skeleton() returns  *)
(* a set whose size is the number of distinct directed edges inserted,     *)
(* holding exactly one tuple per edge (in one of its two orientations) and *)
(* no tuple for a pair of nodes not joined by an edge.                     *)
(***************************************************************************)
C6_SkeletonOnePerEdge ==
    (pc = "skeleton" /\ IsDAG(Range(edges))) =>
        /\ Cardinality(result) = Cardinality(Range(edges))
        /\ \A e \in Range(edges) :
              (<<e[1], e[2]>> \in result) # (<<e[2], e[1]>> \in result)
        /\ \A t \in result : <<t[1], t[2]>> \in Range(edges) \/ <<t[2], t[1]>> \in Range(edges)

\* A three-edge DAG built with a duplicate insertion, out of topological order.
C6_Witness ==
    /\ pc = "skeleton"
    /\ edges = <<<<"B", "C">>, <<"A", "B">>, <<"B", "C">>, <<"A", "C">>>>
    /\ Cardinality(result) = 3

(***************************************************************************)
(* C8: after any sequence of add_edge calls, P is a key of C's parents map *)
(* exactly when C is a key of P's children map, and every name in any      *)
(* parents or children map is a key of the nodes map, mapped to the node   *)
(* of that name.                                                           *)
(***************************************************************************)
C8_ParentsChildrenConsistent ==
    /\ \A P \in Names3, C \in Names3 :
          (C \in DOMAIN myBN /\ P \in DOMAIN myBN[C].parents)
              <=> (P \in DOMAIN myBN /\ C \in DOMAIN myBN[P].children)
    /\ \A n \in DOMAIN myBN :
          /\ myBN[n].name = n
          /\ \A k \in DOMAIN myBN[n].parents :
                k \in DOMAIN myBN /\ myBN[myBN[n].parents[k]].name = k
          /\ \A k \in DOMAIN myBN[n].children :
                k \in DOMAIN myBN /\ myBN[myBN[n].children[k]].name = k

C8_Witness ==
    /\ Range(edges) = {<<"A", "B">>, <<"B", "A">>, <<"C", "C">>}
    /\ DOMAIN myBN["A"].parents = {"B"}
    /\ DOMAIN myBN["C"].children = {"C"}

(***************************************************************************)
(* C9: add_edge is idempotent: a call for an edge already present leaves   *)
(* the node set and every parents and children map unchanged, so the graph *)
(* is determined by the set of distinct edges inserted, whatever the       *)
(* sequence of calls.                                                      *)
(***************************************************************************)
C9_AddEdgeIdempotent ==
    /\ [](myBN = GraphOf(Range(edges)))
    /\ [][\A e \in Edges3 : (e \in Range(edges) /\ AddEdge(e)) => myBN' = myBN]_vars

\* An edge was inserted a second time, after other edges.
C9_Witness ==
    /\ Len(edges) = 4
    /\ edges[1] = edges[4]
    /\ Cardinality(Range(edges)) = 3

====
